---- MODULE Spec2Model ----
(***************************************************************************)
(* Model of the Terminal component (src/src/components/Terminal.jsx): the  *)
(* React state of the component, its event handlers (key presses in the    *)
(* input, typing, the three window buttons) and the command interpreter.   *)
(* Strings are TLA+ strings; the JavaScript string methods the handlers    *)
(* call (trim, toLowerCase, startsWith, slice, split) are computed         *)
(* character by character.                                                 *)
(***************************************************************************)
EXTENDS Integers, Sequences, FiniteSets, TLC

VARIABLES
    history,            \* scrollback: sequence of lines            (useState, line 5)
    currentCommand,     \* line buffer: value of the <input>        (line 6)
    commandHistory,     \* submitted commands, newest first         (line 7)
    historyIndex,       \* history cursor, -1 = not browsing        (line 8)
    showMatrix,         \* matrix mode                              (line 9)
    isFullscreen,       \* fullscreen flag                          (line 10)
    isMinimized,        \* minimized flag                           (line 11)
    terminalColor,      \* active text colour                       (line 12)
    fullscreenElement,  \* document.fullscreenElement is non-null   (line 54)
    \* Observers of the run (history variables; no handler reads them):
    lastEvent,          \* the event the last handler run was dispatched for
    bufferSource,       \* what last assigned currentCommand: "empty" (initial value
                        \* or setCurrentCommand('')), "navigation" (a history entry
                        \* copied by an arrow key), "typed" (onChange at index -1),
                        \* "typedBrowsing" (onChange at index >= 0)
    upsSinceSubmit,     \* k in 0..3: the events since the last non-empty submit (or
                        \* since construction) were exactly k ArrowUp keys; else -1
    submitLog           \* one record per non-empty submit, newest first (parallel to
                        \* commandHistory): matrix mode before the submit and the
                        \* entries the submit added behind the old scrollback

vars == <<history, currentCommand, commandHistory, historyIndex, showMatrix,
          isFullscreen, isMinimized, terminalColor, fullscreenElement, lastEvent,
          bufferSource, upsSinceSubmit, submitLog>>

\* The component's own state
state == <<history, currentCommand, commandHistory, historyIndex, showMatrix,
           isFullscreen, isMinimized, terminalColor>>

(***************************************************************************)
(* Bounds                                                                  *)
(***************************************************************************)
\* Number of non-empty submits explored (the code never caps the history).
MaxHistory == 2

\* Number of non-empty submits explored with the wide input set.
MaxInterpSubmits == 1

(***************************************************************************)
(* JavaScript string methods                                               *)
(***************************************************************************)
charAt(s, i) == SubSeq(s, i, i)

\* White space removed by String.prototype.trim (the characters an
\* <input type="text"> can hold among them).
IsWhiteSpace(c) == c \in {" ", "\t"}

RECURSIVE trimStart(_)
trimStart(s) ==
    IF Len(s) > 0 /\ IsWhiteSpace(charAt(s, 1))
    THEN trimStart(SubSeq(s, 2, Len(s)))
    ELSE s

RECURSIVE trimEnd(_)
trimEnd(s) ==
    IF Len(s) > 0 /\ IsWhiteSpace(charAt(s, Len(s)))
    THEN trimEnd(SubSeq(s, 1, Len(s) - 1))
    ELSE s

trim(s) == trimEnd(trimStart(s))

UpperChars == "ABCDEFGHIJKLMNOPQRSTUVWXYZ"
LowerChars == "abcdefghijklmnopqrstuvwxyz"

toLowerChar(c) ==
    IF \E i \in 1..Len(UpperChars) : charAt(UpperChars, i) = c
    THEN charAt(LowerChars, CHOOSE i \in 1..Len(UpperChars) : charAt(UpperChars, i) = c)
    ELSE c

RECURSIVE toLowerCase(_)
toLowerCase(s) ==
    IF Len(s) = 0 THEN ""
    ELSE toLowerChar(charAt(s, 1)) \o toLowerCase(SubSeq(s, 2, Len(s)))

startsWith(s, p) == Len(s) >= Len(p) /\ SubSeq(s, 1, Len(p)) = p

\* s.slice(n) for 0 <= n
slice(s, n) == IF n >= Len(s) THEN "" ELSE SubSeq(s, n + 1, Len(s))

\* s.split('\n'): the substrings between newline characters, in order
RECURSIVE split(_)
split(s) ==
    IF \E i \in 1..Len(s) : charAt(s, i) = "\n"
    THEN LET i == CHOOSE k \in 1..Len(s) :
                      /\ charAt(s, k) = "\n"
                      /\ \A j \in 1..(k - 1) : charAt(s, j) # "\n"
         IN  <<SubSeq(s, 1, i - 1)>> \o split(slice(s, i))
    ELSE <<s>>

\* Variant: the filter is left out.
filterBoolean_KeepsAll(lines) == lines

\* array.filter(Boolean) on an array of strings: drops the empty strings
filterBoolean(lines) == SelectSeq(lines, LAMBDA l : l # "")

(***************************************************************************)
(* Command interpreter                                                     *)
(***************************************************************************)
\* A handler's return value: a string, or null.
Null == [isNull |-> TRUE, text |-> ""]
Str(t) == [isNull |-> FALSE, text |-> t]

\* Variant: the text is kept as one entry, not split.
processOutput_NoSplit(output) ==
    IF output.isNull \/ output.text = "" THEN <<>> ELSE <<output.text>>

\* processOutput: no lines for a falsy value (null or ''), else the split.
processOutput(output) ==
    IF output.isNull \/ output.text = "" THEN <<>> ELSE split(output.text)

HelpText ==
    "Available commands:\n" \o
    "- help: Display this help message\n" \o
    "- clear: Clear the terminal screen\n" \o
    "- echo [text]: Display the text\n" \o
    "- date: Show current date and time\n" \o
    "- matrix: Toggle Matrix-style animation\n" \o
    "- whoami: Display current user\n" \o
    "- color [green/blue/purple]: Change terminal text color\n" \o
    "- systeminfo: Display system information\n" \o
    "- joke: Tell a random programming joke\n" \o
    "- calc [expression]: Simple calculator (e.g., calc 2 + 2)"

SystemInfoText ==
    "OS: TechOS v1.0.0\n" \o
    "Terminal: React Terminal\n" \o
    "Memory: 640K (should be enough for anybody)\n" \o
    "CPU: Quantum Core i9\n" \o
    "Resolution: Yes\n" \o
    "Status: Optimal"

jokes == <<
    "Why do programmers prefer dark mode? Because light attracts bugs!",
    "How many programmers does it take to change a light bulb? None, that's a hardware problem!",
    "Why do JavaScript developers need glasses? Because they don't see sharp!" >>

\* Values new Date().toLocaleString() can return (the clock is the
\* environment's: any of them at any call).
DateStrings == {"11/4/2026, 8:20:00 PM", "11/4/2026, 8:20:01 PM"}

\* Values Math.floor(Math.random() * jokes.length) can return.
RandomIndexes == 0..(Len(jokes) - 1)

\* colorMap[color]: the own properties, and the properties every object
\* literal inherits from Object.prototype (functions, hence truthy).
\* "" stands for undefined.
InheritedFunction == "function () { [native code] }"
ObjectPrototypeKeys ==
    {"constructor", "toString", "toLocaleString", "valueOf",
     "hasOwnProperty", "isPrototypeOf", "propertyIsEnumerable"}
colorMap(color) ==
    CASE color = "green"  -> "#00ff00"
      [] color = "blue"   -> "#00ffff"
      [] color = "purple" -> "#ff00ff"
      [] color \in ObjectPrototypeKeys -> InheritedFunction
      [] OTHER -> ""

\* new Function('return ' + expression)(): the value converted to a string
\* as the template literal does, or an exception.  Evaluated for the
\* expressions the model submits; every other text is a syntax error here.
JsEval(expression) ==
    CASE expression = "2 + 2"      -> [throws |-> FALSE, value |-> "4"]
      [] expression = "1"          -> [throws |-> FALSE, value |-> "1"]
      [] expression = "\"\\n\""    -> [throws |-> FALSE, value |-> "\n"]
      [] expression = "\"a\\n\\nb\"" -> [throws |-> FALSE, value |-> "a\n\nb"]
      [] OTHER                     -> [throws |-> TRUE, value |-> ""]

\* What one call of handleCommand does: the value it returns and the state
\* setters it calls.  setsHistory: setHistory([]) was called; setsMatrix:
\* setShowMatrix(!showMatrix) was called; setsColor: the argument of
\* setTerminalColor, "" when it was not called.
Result(response, setsHistory, setsMatrix, setsColor) ==
    [response |-> response, setsHistory |-> setsHistory,
     setsMatrix |-> setsMatrix, setsColor |-> setsColor]
Returns(response) == Result(response, FALSE, FALSE, "")

NotFound(command) ==
    "Command not found: " \o command \o ". Type 'help' for available commands."

\* Variant: echo cuts four characters, command.slice(4), leaving the space.
handleCommandDefault_EchoSlice4(command) ==
    IF startsWith(command, "echo ")
    THEN Returns(Str(slice(command, 4)))
    ELSE IF startsWith(command, "color ") /\ colorMap(slice(command, 6)) # ""
    THEN Result(Str("Terminal color changed to " \o slice(command, 6)),
                FALSE, FALSE, colorMap(slice(command, 6)))
    ELSE IF startsWith(command, "calc ")
    THEN LET expression == slice(command, 5)
             result == JsEval(expression)
         IN  IF result.throws
             THEN Returns(Str("Invalid expression"))
             ELSE Returns(Str(expression \o " = " \o result.value))
    ELSE Returns(Str(NotFound(command)))

handleCommandDefault(command) ==
    IF startsWith(command, "echo ")
    THEN Returns(Str(slice(command, 5)))
    ELSE IF startsWith(command, "color ") /\ colorMap(slice(command, 6)) # ""
    THEN Result(Str("Terminal color changed to " \o slice(command, 6)),
                FALSE, FALSE, colorMap(slice(command, 6)))
    ELSE IF startsWith(command, "calc ")
    THEN LET expression == slice(command, 5)
             result == JsEval(expression)
         IN  IF result.throws
             THEN Returns(Str("Invalid expression"))
             ELSE Returns(Str(expression \o " = " \o result.value))
    ELSE Returns(Str(NotFound(command)))

\* Variant: the default case works on the lower-cased line.
handleCommand_LowercasesDefault(command, now, rnd) ==
    LET key == toLowerCase(command) IN
    CASE key = "help"       -> Returns(Str(HelpText))
      [] key = "clear"      -> Result(Null, TRUE, FALSE, "")
      [] key = "date"       -> Returns(Str(now))
      [] key = "matrix"     -> Result(Str("Matrix mode toggled..."), FALSE, TRUE, "")
      [] key = "whoami"     -> Returns(Str("guest@TechOS"))
      [] key = "systeminfo" -> Returns(Str(SystemInfoText))
      [] key = "joke"       -> Returns(Str(jokes[rnd + 1]))
      [] OTHER              -> handleCommandDefault(key)

\* Variant: the switch compares the line as typed, without toLowerCase().
handleCommand_CaseSensitive(command, now, rnd) ==
    CASE command = "help"       -> Returns(Str(HelpText))
      [] command = "clear"      -> Result(Null, TRUE, FALSE, "")
      [] command = "date"       -> Returns(Str(now))
      [] command = "matrix"     -> Result(Str("Matrix mode toggled..."), FALSE, TRUE, "")
      [] command = "whoami"     -> Returns(Str("guest@TechOS"))
      [] command = "systeminfo" -> Returns(Str(SystemInfoText))
      [] command = "joke"       -> Returns(Str(jokes[rnd + 1]))
      [] OTHER                  -> handleCommandDefault(command)

handleCommand(command, now, rnd) ==
    LET key == toLowerCase(command) IN
    CASE key = "help"       -> Returns(Str(HelpText))
      [] key = "clear"      -> Result(Null, TRUE, FALSE, "")
      [] key = "date"       -> Returns(Str(now))
      [] key = "matrix"     -> Result(Str("Matrix mode toggled..."), FALSE, TRUE, "")
      [] key = "whoami"     -> Returns(Str("guest@TechOS"))
      [] key = "systeminfo" -> Returns(Str(SystemInfoText))
      [] key = "joke"       -> Returns(Str(jokes[rnd + 1]))
      [] OTHER              -> handleCommandDefault(command)

(***************************************************************************)
(* The component: initial state and event handlers                         *)
(***************************************************************************)
\* Values the user can give the <input> (e.target.value of onChange).
Inputs ==
    {"", "  ", "a", " b", "clear", "matrix", "color blue"}

InitialHistory ==
    <<"Welcome to TechOS Terminal v1.0.0", "Type \"help\" to see available commands.">>

ResetHistory == <<"Terminal reset.">>

Init ==
    /\ history = InitialHistory
    /\ currentCommand = ""
    /\ commandHistory = <<>>
    /\ historyIndex = -1
    /\ showMatrix = FALSE
    /\ isFullscreen = FALSE
    /\ isMinimized = FALSE
    /\ terminalColor = "#00ff00"
    /\ fullscreenElement = FALSE
    /\ lastEvent = "init"
    /\ bufferSource = "empty"
    /\ upsSinceSubmit = 0
    /\ submitLog = <<>>

\* The value a state holds after the setter calls of one handler run: the
\* updates are applied in call order, so the last call decides.
afterSetState(old, updates) ==
    IF updates = <<>> THEN old ELSE updates[Len(updates)]

\* Variant: the line is submitted as typed, without trim().
enterCommand_NoTrim == currentCommand

\* const command = currentCommand.trim()
enterCommand == trim(currentCommand)

\* Variant: the command is appended at the end, [...commandHistory, command].
enterCommandHistory_AtEnd(command) == commandHistory \o <<command>>

\* Variant: the spread is forgotten, [command].
enterCommandHistory_Replaces(command) == <<command>>

\* The argument of setCommandHistory: [command, ...commandHistory]
enterCommandHistory(command) == <<command>> \o commandHistory

\* Variant: newLines leaves out the echoed input line.
enterHistoryUpdates_NoEcho(command, r) ==
    (IF r.setsHistory THEN << <<>> >> ELSE <<>>)
    \o << filterBoolean(history \o processOutput(r.response)) >>

\* The setHistory calls of one Enter: handleCommand's setHistory([]) when it
\* ran `clear`, then setHistory(newLines) with newLines built from the
\* scrollback of the current render.
enterHistoryUpdates(command, r) ==
    (IF r.setsHistory THEN << <<>> >> ELSE <<>>)
    \o << filterBoolean(history \o <<"> " \o command>> \o processOutput(r.response)) >>

\* The results handleCommand can produce for a command: one per reading of
\* the clock and of Math.random.
handleCommandResults(command) ==
    {handleCommand(command, now, rnd) : now \in DateStrings, rnd \in RandomIndexes}

\* Variant: `matrix` switches matrix mode on, setShowMatrix(true).
enterShowMatrix_SetsOn(r) == IF r.setsMatrix THEN TRUE ELSE showMatrix

\* Matrix mode after the handler: setShowMatrix(!showMatrix) when it was called
enterShowMatrix(r) == IF r.setsMatrix THEN ~showMatrix ELSE showMatrix

\* The entries of a new scrollback that lie behind the old one's length.
appendedLines(old, new) == SubSeq(new, Len(old) + 1, Len(new))

\* handleKeyPress, e.key === 'Enter'
KeyEnter ==
    /\ ~isMinimized
    /\ LET command == enterCommand IN
       IF command # ""
       THEN /\ Len(commandHistory) < MaxHistory
            /\ \E r \in handleCommandResults(command) :
                /\ commandHistory' = enterCommandHistory(command)
                /\ historyIndex' = -1
                /\ history' = afterSetState(history, enterHistoryUpdates(command, r))
                /\ showMatrix' = enterShowMatrix(r)
                /\ terminalColor' = IF r.setsColor # "" THEN r.setsColor ELSE terminalColor
                /\ currentCommand' = ""
                /\ bufferSource' = "empty"
                /\ upsSinceSubmit' = 0
                /\ submitLog' = <<[matrixBefore |-> showMatrix,
                                   appended |-> appendedLines(history, history')]>>
                                \o submitLog
       ELSE /\ UNCHANGED <<history, currentCommand, commandHistory, historyIndex,
                           showMatrix, terminalColor, bufferSource, submitLog>>
            /\ upsSinceSubmit' = -1
    /\ lastEvent' = "Enter"
    /\ UNCHANGED <<isFullscreen, isMinimized, fullscreenElement>>

\* Variant: the guard is historyIndex < commandHistory.length, so the cursor
\* can pass the oldest entry and the buffer receives undefined (shown as '').
KeyArrowUp_OffByOne ==
    /\ ~isMinimized
    /\ IF historyIndex < Len(commandHistory)
       THEN LET newIndex == historyIndex + 1 IN
            /\ historyIndex' = newIndex
            /\ currentCommand' = IF newIndex + 1 \in DOMAIN commandHistory
                                 THEN commandHistory[newIndex + 1] ELSE ""
            /\ bufferSource' = "navigation"
       ELSE UNCHANGED <<historyIndex, currentCommand, bufferSource>>
    /\ lastEvent' = "ArrowUp"
    /\ UNCHANGED submitLog
    /\ upsSinceSubmit' = IF upsSinceSubmit \in 0..2 THEN upsSinceSubmit + 1 ELSE -1
    /\ UNCHANGED <<history, commandHistory, showMatrix, isFullscreen, isMinimized,
                   terminalColor, fullscreenElement>>

\* Variant: the cursor moves but a non-empty buffer is not overwritten.
KeyArrowUp_KeepsTyped ==
    /\ ~isMinimized
    /\ IF historyIndex < Len(commandHistory) - 1
       THEN LET newIndex == historyIndex + 1 IN
            /\ historyIndex' = newIndex
            /\ IF currentCommand = ""
               THEN /\ currentCommand' = commandHistory[newIndex + 1]
                    /\ bufferSource' = "navigation"
               ELSE UNCHANGED <<currentCommand, bufferSource>>
       ELSE UNCHANGED <<historyIndex, currentCommand, bufferSource>>
    /\ lastEvent' = "ArrowUp"
    /\ UNCHANGED submitLog
    /\ upsSinceSubmit' = IF upsSinceSubmit \in 0..2 THEN upsSinceSubmit + 1 ELSE -1
    /\ UNCHANGED <<history, commandHistory, showMatrix, isFullscreen, isMinimized,
                   terminalColor, fullscreenElement>>

\* Variant: Previous at the oldest entry wraps around to the newest.
KeyArrowUp_Wraps ==
    /\ ~isMinimized
    /\ IF Len(commandHistory) > 0
       THEN LET newIndex == IF historyIndex < Len(commandHistory) - 1
                            THEN historyIndex + 1 ELSE 0 IN
            /\ historyIndex' = newIndex
            /\ currentCommand' = commandHistory[newIndex + 1]
            /\ bufferSource' = "navigation"
       ELSE UNCHANGED <<historyIndex, currentCommand, bufferSource>>
    /\ lastEvent' = "ArrowUp"
    /\ UNCHANGED submitLog
    /\ upsSinceSubmit' = IF upsSinceSubmit \in 0..2 THEN upsSinceSubmit + 1 ELSE -1
    /\ UNCHANGED <<history, commandHistory, showMatrix, isFullscreen, isMinimized,
                   terminalColor, fullscreenElement>>

\* handleKeyPress, e.key === 'ArrowUp'
KeyArrowUp ==
    /\ ~isMinimized
    /\ IF historyIndex < Len(commandHistory) - 1
       THEN LET newIndex == historyIndex + 1 IN
            /\ historyIndex' = newIndex
            /\ currentCommand' = commandHistory[newIndex + 1]
            /\ bufferSource' = "navigation"
       ELSE UNCHANGED <<historyIndex, currentCommand, bufferSource>>
    /\ lastEvent' = "ArrowUp"
    /\ UNCHANGED submitLog
    /\ upsSinceSubmit' = IF upsSinceSubmit \in 0..2 THEN upsSinceSubmit + 1 ELSE -1
    /\ UNCHANGED <<history, commandHistory, showMatrix, isFullscreen, isMinimized,
                   terminalColor, fullscreenElement>>

\* Variant: leaving index 0 resets the cursor but not the line buffer.
KeyArrowDown_KeepsBuffer ==
    /\ ~isMinimized
    /\ IF historyIndex > 0
       THEN LET newIndex == historyIndex - 1 IN
            /\ historyIndex' = newIndex
            /\ currentCommand' = commandHistory[newIndex + 1]
            /\ bufferSource' = "navigation"
       ELSE IF historyIndex = 0
       THEN /\ historyIndex' = -1
            /\ UNCHANGED <<currentCommand, bufferSource>>
       ELSE UNCHANGED <<historyIndex, currentCommand, bufferSource>>
    /\ lastEvent' = "ArrowDown"
    /\ UNCHANGED submitLog
    /\ upsSinceSubmit' = -1
    /\ UNCHANGED <<history, commandHistory, showMatrix, isFullscreen, isMinimized,
                   terminalColor, fullscreenElement>>

\* Variant: a plain else instead of else if (historyIndex === 0), so Next
\* at index -1 empties the line buffer too.
KeyArrowDown_ClearsAtRest ==
    /\ ~isMinimized
    /\ IF historyIndex > 0
       THEN LET newIndex == historyIndex - 1 IN
            /\ historyIndex' = newIndex
            /\ currentCommand' = commandHistory[newIndex + 1]
            /\ bufferSource' = "navigation"
       ELSE /\ historyIndex' = -1
            /\ currentCommand' = ""
            /\ bufferSource' = "empty"
    /\ lastEvent' = "ArrowDown"
    /\ UNCHANGED submitLog
    /\ upsSinceSubmit' = -1
    /\ UNCHANGED <<history, commandHistory, showMatrix, isFullscreen, isMinimized,
                   terminalColor, fullscreenElement>>

\* Variant: the buffer is read at the old index, commandHistory[historyIndex].
KeyArrowDown_StaleIndex ==
    /\ ~isMinimized
    /\ IF historyIndex > 0
       THEN LET newIndex == historyIndex - 1 IN
            /\ historyIndex' = newIndex
            /\ currentCommand' = commandHistory[historyIndex + 1]
            /\ bufferSource' = "navigation"
       ELSE IF historyIndex = 0
       THEN /\ historyIndex' = -1
            /\ currentCommand' = ""
            /\ bufferSource' = "empty"
       ELSE UNCHANGED <<historyIndex, currentCommand, bufferSource>>
    /\ lastEvent' = "ArrowDown"
    /\ UNCHANGED submitLog
    /\ upsSinceSubmit' = -1
    /\ UNCHANGED <<history, commandHistory, showMatrix, isFullscreen, isMinimized,
                   terminalColor, fullscreenElement>>

\* handleKeyPress, e.key === 'ArrowDown'
KeyArrowDown ==
    /\ ~isMinimized
    /\ IF historyIndex > 0
       THEN LET newIndex == historyIndex - 1 IN
            /\ historyIndex' = newIndex
            /\ currentCommand' = commandHistory[newIndex + 1]
            /\ bufferSource' = "navigation"
       ELSE IF historyIndex = 0
       THEN /\ historyIndex' = -1
            /\ currentCommand' = ""
            /\ bufferSource' = "empty"
       ELSE UNCHANGED <<historyIndex, currentCommand, bufferSource>>
    /\ lastEvent' = "ArrowDown"
    /\ UNCHANGED submitLog
    /\ upsSinceSubmit' = -1
    /\ UNCHANGED <<history, commandHistory, showMatrix, isFullscreen, isMinimized,
                   terminalColor, fullscreenElement>>

\* onChange of the <input>: the user types, deletes or pastes
OnChange(value) ==
    /\ ~isMinimized
    /\ currentCommand' = value
    /\ bufferSource' = IF historyIndex = -1 THEN "typed" ELSE "typedBrowsing"
    /\ lastEvent' = "change"
    /\ UNCHANGED submitLog
    /\ upsSinceSubmit' = -1
    /\ UNCHANGED <<history, commandHistory, historyIndex, showMatrix, isFullscreen,
                   isMinimized, terminalColor, fullscreenElement>>

\* Variant: the close button restores colour and matrix mode as well.
Reset_Full ==
    /\ ~isMinimized
    /\ history' = ResetHistory
    /\ terminalColor' = "#00ff00"
    /\ showMatrix' = FALSE
    /\ lastEvent' = "reset"
    /\ UNCHANGED submitLog
    /\ upsSinceSubmit' = -1
    /\ UNCHANGED <<currentCommand, commandHistory, historyIndex,
                   isFullscreen, isMinimized, fullscreenElement, bufferSource>>

\* onClick of the close button
Reset ==
    /\ ~isMinimized
    /\ history' = ResetHistory
    /\ lastEvent' = "reset"
    /\ UNCHANGED submitLog
    /\ upsSinceSubmit' = -1
    /\ UNCHANGED <<currentCommand, commandHistory, historyIndex, showMatrix,
                   isFullscreen, isMinimized, terminalColor, fullscreenElement,
                   bufferSource>>

\* Variant: minimizing leaves fullscreen, so the two flags exclude each other.
toggleMinimize_LeavesFullscreen ==
    /\ isMinimized' = ~isMinimized
    /\ isFullscreen' = IF ~isMinimized THEN FALSE ELSE isFullscreen
    /\ fullscreenElement' = IF ~isMinimized THEN FALSE ELSE fullscreenElement
    /\ lastEvent' = "minimize"
    /\ UNCHANGED submitLog
    /\ upsSinceSubmit' = -1
    /\ UNCHANGED <<history, currentCommand, commandHistory, historyIndex, showMatrix,
                   terminalColor, bufferSource>>

\* toggleMinimize: the minimize button, or a click on the minimized bar
toggleMinimize ==
    /\ isMinimized' = ~isMinimized
    /\ lastEvent' = "minimize"
    /\ UNCHANGED submitLog
    /\ upsSinceSubmit' = -1
    /\ UNCHANGED <<history, currentCommand, commandHistory, historyIndex, showMatrix,
                   isFullscreen, terminalColor, fullscreenElement, bufferSource>>

\* toggleFullscreen: requestFullscreen() is asynchronous and the browser
\* may refuse it, so document.fullscreenElement is set or stays null.
toggleFullscreen ==
    /\ ~isMinimized
    /\ IF ~fullscreenElement
       THEN /\ fullscreenElement' \in BOOLEAN
            /\ isFullscreen' = TRUE
       ELSE /\ fullscreenElement' = FALSE
            /\ isFullscreen' = FALSE
    /\ lastEvent' = "fullscreen"
    /\ UNCHANGED submitLog
    /\ upsSinceSubmit' = -1
    /\ UNCHANGED <<history, currentCommand, commandHistory, historyIndex, showMatrix,
                   isMinimized, terminalColor, bufferSource>>

\* The user leaves fullscreen through the browser (Esc): the document
\* changes, the component is not told.
BrowserExitFullscreen ==
    /\ fullscreenElement
    /\ fullscreenElement' = FALSE
    /\ lastEvent' = "exitFullscreen"
    /\ UNCHANGED submitLog
    /\ upsSinceSubmit' = -1
    /\ UNCHANGED <<history, currentCommand, commandHistory, historyIndex, showMatrix,
                   isFullscreen, isMinimized, terminalColor, bufferSource>>

Next ==
    \/ KeyEnter
    \/ KeyArrowUp
    \/ KeyArrowDown
    \/ \E value \in Inputs : OnChange(value)
    \/ Reset
    \/ toggleMinimize
    \/ toggleFullscreen
    \/ BrowserExitFullscreen

Spec == Init /\ [][Next]_vars

(***************************************************************************)
(* The interpreter on a wide set of lines: typing, submitting and the      *)
(* close button only, a bounded number of submits deep.                    *)
(***************************************************************************)
InterpInputs ==
    {"", "help", "HELP", " Help ", "help now", "clear", "date", "Date",
     "matrix", "whoami", "whoami now", "systeminfo", "joke",
     "echo hi", "echo  hi", "echo hi ", "echo ", "echo   ", "ECHO hi",
     "color green", "color blue", "color purple", "color Blue", "color  blue",
     "color ultraviolet", "color toString",
     "calc 2 + 2", "calc 2 +", "calc \"a\\n\\nb\"", "Foo", "foo bar"}

InterpEnter ==
    /\ Len(commandHistory) < MaxInterpSubmits
    /\ KeyEnter

NextInterp ==
    \/ \E value \in InterpInputs : OnChange(value)
    \/ InterpEnter
    \/ Reset

SpecInterp == Init /\ [][NextInterp]_vars

(***************************************************************************)
(* Properties                                                              *)
(***************************************************************************)
TypeOK ==
    /\ history \in Seq(STRING)
    /\ commandHistory \in Seq(STRING)
    /\ historyIndex \in Int
    /\ showMatrix \in BOOLEAN /\ isFullscreen \in BOOLEAN /\ isMinimized \in BOOLEAN
    /\ fullscreenElement \in BOOLEAN

\* The step is a run of handleKeyPress for the named key.
IsKey(key) == lastEvent' = key

\* The line a submit hands to the interpreter.
Submitted == trim(currentCommand)

\* A handler's output text cut at the newlines, one entry per line.
outputLines(response) == IF response.isNull THEN <<>> ELSE split(response.text)

nonEmptyLines(lines) == SelectSeq(lines, LAMBDA l : Len(l) > 0)

IsSuffix(old, new) ==
    /\ Len(old) <= Len(new)
    /\ SubSeq(new, Len(new) - Len(old) + 1, Len(new)) = old

\* C1: after submitting `clear`, in any letter case, the scrollback is
\* empty: no earlier line, no echoed "> clear" line and no output line.
C1_ClearEmptiesScrollback ==
    [][(IsKey("Enter") /\ toLowerCase(Submitted) = "clear") => history' = <<>>]_vars

\* C2 as stated: submitting a non-empty line other than `clear` makes the
\* scrollback the old scrollback, then "> <line>", then every line of the
\* handler's output split on newlines.
C2_AppendsEchoAndEveryOutputLine ==
    [][(IsKey("Enter") /\ Submitted # "" /\ toLowerCase(Submitted) # "clear")
        => \E r \in handleCommandResults(Submitted) :
              history' = history \o <<"> " \o Submitted>> \o outputLines(r.response)]_vars

\* C2 amended: submitting a non-empty line other than `clear` makes the
\* scrollback the old scrollback, then "> <line>", then the non-empty lines
\* of the handler's output split on newlines, in order (empty output lines
\* are dropped).
C2_AppendsEchoAndNonEmptyOutputLines ==
    [][(IsKey("Enter") /\ Submitted # "" /\ toLowerCase(Submitted) # "clear")
        => \E r \in handleCommandResults(Submitted) :
              history' = history \o <<"> " \o Submitted>>
                                 \o nonEmptyLines(outputLines(r.response))]_vars

\* A submit has just appended an echoed line and two lines of output, an
\* empty output line between them having been dropped.
C2_Witness ==
    /\ lastEvent = "Enter"
    /\ Len(commandHistory) > 0
    /\ commandHistory[1] = "calc \"a\\n\\nb\""
    /\ Len(history) = Len(InitialHistory) + 3
    /\ SubSeq(history, 1, Len(InitialHistory)) = InitialHistory
    /\ history[Len(history) - 2] = "> calc \"a\\n\\nb\""
    /\ history[Len(history) - 1] = "\"a\\n\\nb\" = a"
    /\ history[Len(history)] = "b"

\* C3: in every reachable state -1 <= historyIndex <= N-1, N the length of
\* the command history.
C3_CursorInRange ==
    /\ -1 <= historyIndex
    /\ historyIndex <= Len(commandHistory) - 1

\* Previous has moved the cursor to the oldest of two or more entries.
C3_Witness ==
    /\ lastEvent = "ArrowUp"
    /\ Len(commandHistory) >= 2
    /\ historyIndex = Len(commandHistory) - 1

\* C4: whenever the cursor is -1 the line buffer is empty or holds text
\* typed while the cursor was -1, never an entry copied by navigation (nor
\* text left over from browsing).
C4_RestingBufferIsTyped ==
    historyIndex = -1 =>
        \/ bufferSource = "typed"
        \/ bufferSource = "empty" /\ currentCommand = ""

\* Next has just taken the cursor from 0 back to -1 after browsing.
C4_Witness ==
    /\ lastEvent = "ArrowDown"
    /\ Len(commandHistory) > 0
    /\ historyIndex = -1
    /\ bufferSource = "empty"

\* C5: a submit of a line whose trimmed text is non-empty puts the trimmed
\* text at the front of the command history, the earlier entries following
\* unchanged, sets the cursor to -1 and empties the line buffer.
C5_SubmitPushesFront ==
    [][(IsKey("Enter") /\ Submitted # "")
        => /\ Len(commandHistory') = Len(commandHistory) + 1
           /\ commandHistory'[1] = Submitted
           /\ \A i \in 1..Len(commandHistory) : commandHistory'[i + 1] = commandHistory[i]
           /\ historyIndex' = -1
           /\ currentCommand' = ""]_vars

\* `clear` has just been submitted on top of an earlier entry.
C5_Witness ==
    /\ lastEvent = "Enter"
    /\ Len(commandHistory) >= 2
    /\ commandHistory[1] = "clear"
    /\ commandHistory[2] = "b"
    /\ historyIndex = -1
    /\ currentCommand = ""

\* C6: the command history only grows: in every step the old history is a
\* suffix of the new one, and Previous and Next leave it unchanged.
C6_HistoryOnlyGrows ==
    [][/\ IsSuffix(commandHistory, commandHistory')
       /\ (IsKey("ArrowUp") \/ IsKey("ArrowDown")) => commandHistory' = commandHistory]_vars

\* A second submit has put its line in front of the first one.
C6_Witness ==
    /\ lastEvent = "Enter"
    /\ Len(commandHistory) >= 2
    /\ commandHistory[1] # commandHistory[2]
    /\ currentCommand = ""

\* C7: Previous with index < N-1 sets the cursor to index+1 and the line
\* buffer to history[index+1] whatever the buffer held; with index = N-1 or
\* N = 0 it changes no state component.
C7_Previous ==
    [][IsKey("ArrowUp")
        => IF historyIndex < Len(commandHistory) - 1
           THEN /\ historyIndex' = historyIndex + 1
                /\ currentCommand' = commandHistory[historyIndex + 2]
           ELSE UNCHANGED state]_vars

\* Previous has moved the cursor from 0 to 1 and the buffer shows the older entry.
C7_Witness ==
    /\ lastEvent = "ArrowUp"
    /\ historyIndex = 1
    /\ currentCommand = commandHistory[2]
    /\ commandHistory[2] # commandHistory[1]

\* C8: Next with index > 0 sets the cursor to index-1 and the line buffer
\* to history[index-1]; with index = 0 it sets the cursor to -1 and empties
\* the line buffer; with index = -1 it leaves both unchanged.
C8_Next ==
    [][IsKey("ArrowDown")
        => IF historyIndex > 0
           THEN /\ historyIndex' = historyIndex - 1
                /\ currentCommand' = commandHistory[historyIndex]
           ELSE IF historyIndex = 0
           THEN /\ historyIndex' = -1
                /\ currentCommand' = ""
           ELSE UNCHANGED <<historyIndex, currentCommand>>]_vars

\* Next at index -1 has left typed text in the line buffer.
C8_Witness ==
    /\ lastEvent = "ArrowDown"
    /\ historyIndex = -1
    /\ Len(commandHistory) > 0
    /\ bufferSource = "typed"
    /\ currentCommand = "a"

\* C9 as stated: after submitting `a` then `b` from an empty history, the
\* line buffer shows `a` after the first Previous, `b` after the second and
\* `b` after the third.
C9_PreviousShowsOldestFirst ==
    commandHistory = <<"b", "a">> =>
        /\ upsSinceSubmit = 1 => currentCommand = "a"
        /\ upsSinceSubmit = 2 => currentCommand = "b"
        /\ upsSinceSubmit = 3 => currentCommand = "b"

\* C9 amended: after submitting `a` then `b` from an empty history, the
\* line buffer shows `b` after the first Previous, `a` after the second and
\* still `a` after the third.
C9_PreviousShowsNewestFirst ==
    commandHistory = <<"b", "a">> =>
        /\ upsSinceSubmit = 1 => currentCommand = "b"
        /\ upsSinceSubmit = 2 => currentCommand = "a"
        /\ upsSinceSubmit = 3 => currentCommand = "a"

\* The third Previous in a row after submitting `a` then `b`.
C9_Witness ==
    /\ commandHistory = <<"b", "a">>
    /\ lastEvent = "ArrowUp"
    /\ upsSinceSubmit = 3

\* C10: a submit of an empty or all-whitespace line changes neither the
\* command history, the scrollback, the cursor, the colour nor matrix mode.
C10_BlankSubmitIsNoOp ==
    [][(IsKey("Enter") /\ Submitted = "")
        => UNCHANGED <<commandHistory, history, historyIndex, terminalColor, showMatrix>>]_vars

\* A whitespace-only line has been submitted while browsing.
C10_Witness ==
    /\ lastEvent = "Enter"
    /\ currentCommand = "  "
    /\ historyIndex >= 0

\* The line is `matrix` in some letter case.
IsMatrixCommand(line) == Len(line) = Len("matrix") /\ toLowerCase(line) = "matrix"

\* C11: when the two newest submits are both `matrix`, matrix mode is back
\* at the value it had before the first of them, and each of the two added
\* the echoed line and exactly one output line, the same text both times.
C11_MatrixTwiceRestores ==
    (/\ Len(commandHistory) >= 2
     /\ IsMatrixCommand(commandHistory[1])
     /\ IsMatrixCommand(commandHistory[2]))
    => /\ showMatrix = submitLog[2].matrixBefore
       /\ Len(submitLog[1].appended) = 2
       /\ Len(submitLog[2].appended) = 2
       /\ submitLog[1].appended[1] = "> " \o commandHistory[1]
       /\ submitLog[2].appended[1] = "> " \o commandHistory[2]
       /\ submitLog[1].appended[2] = submitLog[2].appended[2]

\* `matrix` has been submitted twice in succession, starting with matrix
\* mode off.
C11_Witness ==
    /\ Len(commandHistory) >= 2
    /\ commandHistory[1] = "matrix"
    /\ commandHistory[2] = "matrix"
    /\ lastEvent = "Enter"
    /\ submitLog[2].matrixBefore = FALSE
    /\ submitLog[1].matrixBefore = TRUE
    /\ showMatrix = FALSE

\* C13: the close button replaces the scrollback by exactly one sentinel
\* line and leaves colour, matrix mode, command history, cursor, line
\* buffer and window mode unchanged.
C13_ResetIsPartial ==
    [][IsKey("reset")
        => /\ Len(history') = 1
           /\ history'[1] = "Terminal reset."
           /\ UNCHANGED <<terminalColor, showMatrix, commandHistory, historyIndex,
                          currentCommand, isMinimized, isFullscreen>>]_vars

\* The close button was used after the colour and matrix mode had been
\* changed, while browsing the history.
C13_Witness ==
    /\ lastEvent = "reset"
    /\ history = <<"Terminal reset.">>
    /\ terminalColor = "#00ffff"
    /\ showMatrix
    /\ historyIndex >= 0

\* C18 as stated: whenever the cursor is i >= 0 the line buffer equals
\* history[i], also after typing while browsing.
C18_BufferMirrorsEntry ==
    historyIndex >= 0 => currentCommand = commandHistory[historyIndex + 1]

\* C18 amended: whenever the cursor is i >= 0 the line buffer equals
\* history[i] unless the user has typed since the last navigation step;
\* typing while browsing changes the buffer and leaves the cursor at i.
C18_BufferMirrorsEntryUntilTyped ==
    /\ historyIndex >= 0 =>
          \/ bufferSource = "navigation"
             /\ currentCommand = commandHistory[historyIndex + 1]
          \/ bufferSource = "typedBrowsing"
    /\ bufferSource = "typedBrowsing" => historyIndex >= 0

\* Next has moved the cursor from the older to the newer of two different
\* entries and the buffer shows the newer one.
C18_Witness ==
    /\ lastEvent = "ArrowDown"
    /\ historyIndex = 0
    /\ Len(commandHistory) >= 2
    /\ commandHistory[1] # commandHistory[2]
    /\ bufferSource = "navigation"
    /\ currentCommand = commandHistory[1]

\* C19 as stated: the minimized flag and the fullscreen flag are never both
\* set.
C19_OneWindowMode == ~(isMinimized /\ isFullscreen)

\* C19 amended: the minimized flag and the fullscreen flag are independent:
\* only the fullscreen toggle changes the fullscreen flag, and only while
\* the window is not minimized; only the minimize toggle changes the
\* minimized flag, and it leaves the fullscreen flag as it is (so minimizing
\* a fullscreen window sets both).
C19_WindowFlagsIndependent ==
    [][/\ isFullscreen' # isFullscreen => (IsKey("fullscreen") /\ ~isMinimized)
       /\ isMinimized' # isMinimized => (IsKey("minimize") /\ isFullscreen' = isFullscreen)
       /\ IsKey("minimize") => (isMinimized' = ~isMinimized /\ isFullscreen' = isFullscreen)]_vars

\* A fullscreen window has been minimized: both flags are set.
C19_Witness ==
    /\ lastEvent = "minimize"
    /\ isMinimized
    /\ isFullscreen

\* C20: no entry of the scrollback is the empty string.
C20_NoEmptyScrollbackEntry ==
    \A i \in 1..Len(history) : Len(history[i]) > 0

\* After a reset, a submit whose output has an empty line in the middle has
\* added the echoed line and the two non-empty lines only.
C20_Witness ==
    /\ lastEvent = "Enter"
    /\ Len(commandHistory) > 0
    /\ commandHistory[1] = "calc \"a\\n\\nb\""
    /\ history = <<"Terminal reset.", "> calc \"a\\n\\nb\"", "\"a\\n\\nb\" = a", "b">>

\* The exact command names of the switch.
ExactNames == {"help", "clear", "date", "matrix", "whoami", "systeminfo", "joke"}

\* The text of a line up to its first white-space character.
firstToken(s) ==
    IF \E i \in 1..Len(s) : IsWhiteSpace(charAt(s, i))
    THEN SubSeq(s, 1, (CHOOSE i \in 1..Len(s) :
                          /\ IsWhiteSpace(charAt(s, i))
                          /\ \A j \in 1..(i - 1) : ~IsWhiteSpace(charAt(s, j))) - 1)
    ELSE s

\* The generic message for a line.
notFoundMessage(line) ==
    "Command not found: " \o line \o ". Type 'help' for available commands."

\* The output entries the handler of an exact command name can produce.
handlerOutputs(name) ==
    CASE name = "help"       -> {split(HelpText)}
      [] name = "clear"      -> {<<>>}
      [] name = "date"       -> {<<d>> : d \in DateStrings}
      [] name = "matrix"     -> {<<"Matrix mode toggled...">>}
      [] name = "whoami"     -> {<<"guest@TechOS">>}
      [] name = "systeminfo" -> {split(SystemInfoText)}
      [] name = "joke"       -> {<<jokes[i]>> : i \in 1..Len(jokes)}

\* The step ran the handler of the exact command `name`.
RanHandler(name) ==
    /\ \E out \in handlerOutputs(name) :
          history' = history \o <<"> " \o Submitted>> \o out
    /\ showMatrix' = IF name = "matrix" THEN ~showMatrix ELSE showMatrix
    /\ terminalColor' = terminalColor

\* The step took the command-not-found path.
RanNotFound ==
    /\ history' = history \o <<"> " \o Submitted, notFoundMessage(Submitted)>>
    /\ showMatrix' = showMatrix
    /\ terminalColor' = terminalColor

\* C12: for every line `color <t>` whose token t is not exactly green, blue
\* or purple the only output is the generic command-not-found message for
\* the line, and the colour is unchanged.
C12_UnlistedColourIsNotFound ==
    [][(/\ IsKey("Enter")
        /\ startsWith(Submitted, "color ")
        /\ slice(Submitted, 6) \notin {"green", "blue", "purple"})
        => RanNotFound]_vars

\* C14 as stated: a line whose first white-space-delimited token equals an
\* exact command name, ignoring letter case, runs that command's handler.
C14_DispatchByFirstToken ==
    [][(/\ IsKey("Enter")
        /\ Submitted # ""
        /\ toLowerCase(firstToken(Submitted)) \in ExactNames)
        => RanHandler(toLowerCase(firstToken(Submitted)))]_vars

\* C14 amended: a line is dispatched by the whole trimmed line compared
\* case-insensitively with the exact command names: a line equal to a name
\* ignoring letter case runs that command's handler; a line whose first
\* token is a name but that has more text behind it takes the
\* command-not-found path.
C14_DispatchByWholeLine ==
    [][(IsKey("Enter") /\ Submitted # "")
        => /\ toLowerCase(Submitted) \in ExactNames
                => RanHandler(toLowerCase(Submitted))
           /\ (/\ toLowerCase(Submitted) \notin ExactNames
               /\ toLowerCase(firstToken(Submitted)) \in ExactNames)
                => RanNotFound]_vars

\* `HELP` has been submitted and the help text was appended.
C14_Witness ==
    /\ lastEvent = "Enter"
    /\ Len(commandHistory) > 0
    /\ commandHistory[1] = "HELP"
    /\ Len(submitLog[1].appended) = 12
    /\ submitLog[1].appended[1] = "> HELP"
    /\ submitLog[1].appended[2] = "Available commands:"

\* The text typed behind `echo ` in the line buffer.
echoArgument == slice(currentCommand, 5)

\* C15 as stated: typing `echo ` followed by any X without a newline and
\* submitting appends the echoed input and exactly one output line equal
\* to X character for character (a blank line for empty X).
C15_EchoRoundTrip ==
    [][(IsKey("Enter") /\ startsWith(currentCommand, "echo "))
        => history' = history \o <<"> " \o Submitted, echoArgument>>]_vars

\* C15 amended: typing `echo ` followed by X and submitting appends the
\* echoed input and exactly one output line equal to X without its trailing
\* white space (leading white space is kept), when that is not empty; when
\* X is empty or all white space the submitted line is `echo` and the one
\* output line is the command-not-found message for `echo`.
C15_EchoRoundTripUpToTrailingSpace ==
    [][(IsKey("Enter") /\ startsWith(currentCommand, "echo "))
        => IF trimEnd(echoArgument) # ""
           THEN history' = history \o <<"> echo " \o trimEnd(echoArgument),
                                        trimEnd(echoArgument)>>
           ELSE history' = history \o <<"> echo", notFoundMessage("echo")>>]_vars

\* `echo  hi` has been submitted: the output line keeps the leading space.
C15_Witness ==
    /\ lastEvent = "Enter"
    /\ Len(commandHistory) > 0
    /\ commandHistory[1] = "echo  hi"
    /\ submitLog[1].appended = <<"> echo  hi", " hi">>

\* The line starts with one of the prefixes the default case tests.
MatchesPrefixRule(line) ==
    \/ startsWith(line, "echo ")
    \/ startsWith(line, "color ")
    \/ startsWith(line, "calc ")

\* C16: a non-empty trimmed line that matches no exact command name and no
\* prefix rule appends the echoed input and exactly one output line, the
\* command-not-found message holding the line in its original letter case;
\* colour and matrix mode are unchanged.
C16_UnknownCommandMessage ==
    [][(/\ IsKey("Enter")
        /\ Submitted # ""
        /\ toLowerCase(Submitted) \notin ExactNames
        /\ ~MatchesPrefixRule(Submitted))
        => RanNotFound]_vars

\* `Foo` has been submitted and the message names it with its capital F.
C16_Witness ==
    /\ lastEvent = "Enter"
    /\ Len(commandHistory) > 0
    /\ commandHistory[1] = "Foo"
    /\ submitLog[1].appended =
          <<"> Foo", "Command not found: Foo. Type 'help' for available commands.">>

\* The commands the help text lists, in order.
HelpCommands ==
    <<"help", "clear", "echo", "date", "matrix", "whoami", "color", "systeminfo",
      "joke", "calc">>

\* The entries a `help` submit added behind the echoed input.
helpEntries == SubSeq(appendedLines(history, history'), 2, Len(history') - Len(history))

\* The number of entries among them that list a command ("- <name>...").
listedCommands == Cardinality({i \in 1..Len(helpEntries) : startsWith(helpEntries[i], "- ")})

\* Submitting `help` appends the echoed input and then the help text, one
\* entry per text line.
HelpAppended ==
    /\ Len(history') >= Len(history) + 1
    /\ SubSeq(history', 1, Len(history)) = history
    /\ history'[Len(history) + 1] = "> " \o Submitted
    /\ helpEntries = split(HelpText)
    /\ \A i \in 1..Len(helpEntries) : \A j \in 1..Len(helpEntries[i]) :
          charAt(helpEntries[i], j) # "\n"

\* C17 as stated: submitting `help` appends the help text, one entry per
\* line, and the text enumerates 9 commands.
C17_HelpListsNine ==
    [][(IsKey("Enter") /\ toLowerCase(Submitted) = "help")
        => (HelpAppended /\ listedCommands = 9)]_vars

\* C17 amended: submitting `help` appends, after the echoed input, the fixed
\* help text as one scrollback entry per text line, and that text
\* enumerates 10 commands (help, clear, echo, date, matrix, whoami, color,
\* systeminfo, joke, calc).
C17_HelpListsTen ==
    [][(IsKey("Enter") /\ toLowerCase(Submitted) = "help")
        => /\ HelpAppended
           /\ listedCommands = 10
           /\ Len(helpEntries) = Len(HelpCommands) + 1
           /\ helpEntries[1] = "Available commands:"
           /\ \A i \in 1..Len(HelpCommands) :
                 \/ startsWith(helpEntries[i + 1], "- " \o HelpCommands[i] \o ":")
                 \/ startsWith(helpEntries[i + 1], "- " \o HelpCommands[i] \o " [")]_vars

\* `help` has been submitted: the echo and eleven entries were appended,
\* the last one listing calc.
C17_Witness ==
    /\ lastEvent = "Enter"
    /\ Len(commandHistory) > 0
    /\ commandHistory[1] = "help"
    /\ Len(submitLog[1].appended) = 12
    /\ submitLog[1].appended[1] = "> help"
    /\ startsWith(submitLog[1].appended[12], "- calc [expression]")

====
